---- MODULE Spec2Model ----
(***************************************************************************)
(* A model of mongoproxy's connection engine (src/src/main.rs): the accept *)
(* loop, the per-connection handler, the two byte shuttles (proxy_bytes),  *)
(* the two bounded observer queues and the two observer tasks              *)
(* (track_messages) that feed the shared tracker.                          *)
(*                                                                         *)
(* The unit of data is a block of 16 wire bytes, a small natural.  A wire   *)
(* message is one header block, from which total_length (in blocks) and    *)
(* the correlation id are decoded, followed by total_length - HDR payload  *)
(* blocks.  The id is request_id on the client direction and response_to   *)
(* on the server direction.                                                *)
(***************************************************************************)
EXTENDS Integers, Sequences, FiniteSets, TLC

\* ---------------------------------------------------------------- bounds
\* Sockets the accept loop takes in AcceptSpec.
MaxConns == 2
\* Failed accept() calls the accept loop sees in AcceptSpec.
MaxAcceptErrs == 1
\* Blocks the two peers send in all on the connection studied in Spec.
MaxStream == 3
\* Largest value of a block.
MaxByte == 2
\* Size of the read buffer of proxy_bytes, in blocks (1024 bytes in the source).
CHUNK == 2
\* Capacity of an observer queue (32 in the source).
QUEUE_CAP == 2
\* Capacity of an observer queue in TightSpec.
TightCap == 1
\* Blocks the two peers of one connection send in all in ServeSpec.
ServeStream == 1
\* Largest value of a group of a peer's IP address in LabelSpec.
MaxGroup == 2
\* Largest port of a peer in LabelSpec.
MaxPort == 3

\* ------------------------------------------------------- wire format
\* Length of the message header, in blocks.
HDR == 1
\* Largest total_length the framer accepts, in blocks.
MAX_MESSAGE_SIZE == 2

\* The fields of a header block h.
TotalLength(h) == h

MsgId(h) == h % 2

Conns == 1..MaxConns
Dirs == {"client", "server"}
Bytes == 0..MaxByte

Other(d) == IF d = "client" THEN "server" ELSE "client"

\* ------------------------------------------------------------ sequences
IsPrefix(s, t) == Len(s) <= Len(t) /\ SubSeq(t, 1, Len(s)) = s

Drop(s, n) == SubSeq(s, n + 1, Len(s))

Take(s, n) == SubSeq(s, 1, n)

Range(s) == {s[i] : i \in 1..Len(s)}

\* The byte chunks one read can return: 1..n bytes.
Chunks(n) == UNION {[1..k -> Bytes] : k \in 1..n}

\* BufBytes = Result<bytes::Bytes, io::Error>
OkBytes(b) == [kind |-> "Ok", bytes |-> b]

ErrEof == [kind |-> "Err", bytes |-> <<>>]

\* The bytes of the Ok items of a queue, in order.
RECURSIVE DataOf(_)
DataOf(q) ==
    IF q = <<>> THEN <<>>
    ELSE (IF Head(q).kind = "Ok" THEN Head(q).bytes ELSE <<>>) \o DataOf(Tail(q))

VARIABLES
    \* accept loop
    remote_addr,       \* "" (transparent mode) or the configured upstream
    nsock,             \* sockets accepted so far
    accept_errs,       \* failed accept() calls so far
    apc,               \* the accept loop: "accept" (at listener.accept) or "exit"
    peer_addr,         \* the SocketAddr format_client_address is given
    client_addr,       \* the label it returned, <<>> before the call
    limit,             \* blocks the peers of one connection send in all
    cap,               \* capacity of each observer queue
    \* per accepted socket
    hstate,            \* "none", "nodst", "spawned", "proxying", "closed"
    handlerResult,     \* "none", "Ok", "Err": what handle_connection returned
    firstErr,          \* kind of the error of the shuttle that completed first
    connection_count,  \* CONNECTION_COUNT_TOTAL, per connection
    disconnection_count, \* DISCONNECTION_COUNT_TOTAL, per connection
    connection_errors, \* CONNECTION_ERRORS_TOTAL, per connection
    \* per shuttle (connection, direction)
    spc,               \* "idle", "read", "write", "send", "notify", "done", "cancelled"
    buf,               \* the read buffer of the current iteration
    len,               \* the number of blocks the read put in it
    wrem,              \* what write_all has still to write of it
    tracker_ok,
    readSeq,           \* every byte read from the source socket
    written,           \* every byte written to the far socket
    answers,           \* positions read when a request of that id had been written
    poisonSent,        \* the shuttle's poison token was enqueued
    \* per queue (connection, direction)
    chan,              \* the items in the queue
    rxOpen,            \* the receiver is alive
    txOpen,            \* per connection: the senders are alive
    \* per observer (connection, direction)
    opc,               \* "idle", "run", "locked", "done_ok", "done_err"
    fbuf,              \* bytes received and not yet framed
    delivered,         \* every data byte received from the queue
    ntracked,          \* calls of the tracker callback
    protoErr,          \* the framer reported a protocol error
    tokenSeen,         \* the observer consumed a poison token
    \* tracker
    mutex,             \* "free" or the direction holding it
    pending,           \* request ids awaiting a reply
    samples,           \* indices of the server messages that gave a latency sample
    orphans            \* replies with no pending request

acceptVars == <<remote_addr, nsock, accept_errs, apc, peer_addr, client_addr, limit, cap>>
connVars == <<hstate, handlerResult, firstErr, connection_count,
              disconnection_count, connection_errors>>
shuttleVars == <<spc, buf, len, wrem, tracker_ok, readSeq, written, answers,
                 poisonSent>>
queueVars == <<chan, rxOpen, txOpen>>
observerVars == <<opc, fbuf, delivered, ntracked, protoErr, tokenSeen>>
trackerVars == <<mutex, pending, samples, orphans>>
vars == <<acceptVars, connVars, shuttleVars, queueVars, observerVars, trackerVars>>


\* ============================================================= framer
\* What MongoMessage::from_reader finds in the bytes it has been given:
\* "need" more bytes, a "bad" header (total_length below the header length
\* or above the ceiling), or a complete message "ready".
FrameStatus(b) ==
    IF Len(b) < HDR THEN "need"
    ELSE IF TotalLength(b[1]) < HDR \/ TotalLength(b[1]) > MAX_MESSAGE_SIZE THEN "bad"
    ELSE IF Len(b) < TotalLength(b[1]) THEN "need"
    ELSE "ready"

\* The complete messages at the head of a byte stream, as
\* [id, first, last]: the positions of the first and last byte.
RECURSIVE FramesFrom(_, _)
FramesFrom(b, off) ==
    IF FrameStatus(b) # "ready" THEN <<>>
    ELSE <<[id |-> MsgId(b[1]), first |-> off + 1, last |-> off + TotalLength(b[1])]>>
         \o FramesFrom(Drop(b, TotalLength(b[1])), off + TotalLength(b[1]))

Frames(b) == FramesFrom(b, 0)

\* ============================================================ handler
\* The state of a socket the accept loop has not taken yet.
NoShuttle == [d \in Dirs |-> "idle"]

\* The match without its UnexpectedEof arm: every error is returned.
JoinResultNoEofArm(kind) == "Err"

\* handle_connection's match on try_join!: an UnexpectedEof is a clean close.
JoinResult(kind) == IF kind = "UnexpectedEof" THEN "Ok" ELSE "Err"

\* An Err arm that counts nothing.
TallyNothing(res) == 0

\* conn_handler: the counter incremented for what handle_connection returned.
TallyDisconnect(res) == IF res = "Ok" THEN 1 ELSE 0

TallyError(res) == IF res = "Err" THEN 1 ELSE 0

\* join! in place of try_join!: the other shuttle runs on to its own end.
WaitForBoth(pcs, d) == [pcs EXCEPT ![d] = "done"]

\* try_join!: the first shuttle to return its Err ends the join, and the
\* other shuttle's future is dropped with it.
FirstCompletion(pcs, d) == [pcs EXCEPT ![d] = "done", ![Other(d)] = "cancelled"]

\* A sender that outlives the handler.
SendersKept == TRUE

\* Whether a sender of the observer queues is left once handle_connection
\* has returned: client_tx, server_tx, signal_client and signal_server were
\* all moved into the two shuttle futures, which are dropped by then.
SendersAfterReturn == FALSE

\* Shuttle d of connection c returns Err(kind): try_join! returns it,
\* handle_connection returns, every sender, socket half and read buffer is
\* dropped, and conn_handler tallies the result.
Complete(c, d, kind) ==
    /\ spc' = [spc EXCEPT ![c] = FirstCompletion(spc[c], d)]
    /\ hstate' = [hstate EXCEPT ![c] = "closed"]
    /\ firstErr' = [firstErr EXCEPT ![c] = kind]
    /\ handlerResult' = [handlerResult EXCEPT ![c] = JoinResult(kind)]
    /\ disconnection_count' =
          [disconnection_count EXCEPT ![c] = @ + TallyDisconnect(JoinResult(kind))]
    /\ connection_errors' =
          [connection_errors EXCEPT ![c] = @ + TallyError(JoinResult(kind))]
    /\ txOpen' = [txOpen EXCEPT ![c] = SendersAfterReturn]
    /\ buf' = [buf EXCEPT ![c] = [e \in Dirs |-> <<>>]]
    /\ len' = [len EXCEPT ![c] = [e \in Dirs |-> 0]]
    /\ wrem' = [wrem EXCEPT ![c] = [e \in Dirs |-> <<>>]]
    /\ UNCHANGED connection_count

\* handle_connection up to try_join!: resolve, dial, set up the sockets,
\* build the tracker and the queues, spawn the observers, start both
\* shuttles.  A failed resolve, dial or socket call (peer_addr,
\* set_nodelay) returns the error to conn_handler, which tallies it.
Dial(c) ==
    /\ hstate[c] = "spawned"
    /\ \E res \in {"ok", "resolve_err", "connect_err", "setup_err"} :
          IF res = "ok"
          THEN /\ hstate' = [hstate EXCEPT ![c] = "proxying"]
               /\ spc' = [spc EXCEPT ![c] = [d \in Dirs |-> "read"]]
               /\ opc' = [opc EXCEPT ![c] = [d \in Dirs |-> "run"]]
               /\ rxOpen' = [rxOpen EXCEPT ![c] = [d \in Dirs |-> TRUE]]
               /\ txOpen' = [txOpen EXCEPT ![c] = TRUE]
               /\ UNCHANGED <<handlerResult, firstErr, connection_errors>>
          ELSE /\ hstate' = [hstate EXCEPT ![c] = "closed"]
               /\ handlerResult' = [handlerResult EXCEPT ![c] = "Err"]
               /\ firstErr' = [firstErr EXCEPT ![c] = res]
               /\ connection_errors' =
                     [connection_errors EXCEPT ![c] = @ + TallyError("Err")]
               /\ UNCHANGED <<spc, opc, rxOpen, txOpen>>
    /\ UNCHANGED <<acceptVars, connection_count, disconnection_count>>
    /\ UNCHANGED <<buf, len, wrem, tracker_ok, readSeq, written, answers, poisonSent>>
    /\ UNCHANGED <<chan, fbuf, delivered, ntracked, protoErr, tokenSeen, trackerVars>>

\* ============================================================ shuttle
\* let mut buf = [0; 1024]; read puts a chunk at its start.
ReadInto(chunk) == chunk \o [i \in 1..(CHUNK - Len(chunk)) |-> 0]

\* &buf[0..len], what write_all is given.
WriteSlice(b, n) == Take(b, n)

\* The whole buffer copied, whatever the read returned.
CopyWholeBuffer(b, n) == b

\* bytes::Bytes::copy_from_slice(&buf[..len]), what the observer is sent.
CopySlice(b, n) == Take(b, n)

\* read_from.read(&mut buf) returns len > 0; write_all starts.
ShuttleRead(c, d) ==
    /\ spc[c][d] = "read"
    /\ \E chunk \in Chunks(CHUNK) :
          /\ Len(readSeq[c]["client"]) + Len(readSeq[c]["server"]) + Len(chunk)
                <= limit
          /\ readSeq' = [readSeq EXCEPT ![c][d] = @ \o chunk]
          /\ answers' = [answers EXCEPT ![c][d] = @ \cup
                   {Len(readSeq[c][d]) + i : i \in
                      {j \in 1..Len(chunk) :
                         \E f \in Range(Frames(written[c][Other(d)])) :
                            f.id # 0 /\ f.id = MsgId(chunk[j])}}]
          /\ buf' = [buf EXCEPT ![c][d] = ReadInto(chunk)]
          /\ len' = [len EXCEPT ![c][d] = Len(chunk)]
          /\ wrem' = [wrem EXCEPT ![c][d] = WriteSlice(ReadInto(chunk), Len(chunk))]
    /\ spc' = [spc EXCEPT ![c][d] = "write"]
    /\ UNCHANGED <<acceptVars, connVars, tracker_ok, written, poisonSent>>
    /\ UNCHANGED <<queueVars, observerVars, trackerVars>>

\* read returns 0: proxy_bytes returns Err(UnexpectedEof).
ShuttleReadEof(c, d) ==
    /\ spc[c][d] = "read"
    /\ Complete(c, d, "UnexpectedEof")
    /\ UNCHANGED <<acceptVars, tracker_ok, readSeq, written, answers, poisonSent>>
    /\ UNCHANGED <<chan, rxOpen, observerVars, trackerVars>>

\* read fails: the ? returns the I/O error.
ShuttleReadErr(c, d) ==
    /\ spc[c][d] = "read"
    /\ Complete(c, d, "ConnectionReset")
    /\ UNCHANGED <<acceptVars, tracker_ok, readSeq, written, answers, poisonSent>>
    /\ UNCHANGED <<chan, rxOpen, observerVars, trackerVars>>

\* A single write in place of write_all: over after the first write.
WriteOnceDone(rest) == TRUE

\* write_all is over once nothing of the chunk is left to write.
WriteAllDone(rest) == rest = <<>>

\* The flag ignored: every chunk is offered to the observer.
AlwaysOffer(ok) == "send"

\* The step after write_all: offer the chunk to the observer unless the
\* tracker channel was given up.
AfterWrite(ok) == IF ok THEN "send" ELSE "read"

\* One write of write_all: the socket takes 1..len bytes of what is left.
ShuttleWrite(c, d) ==
    /\ spc[c][d] = "write"
    /\ wrem[c][d] # <<>>
    /\ \E k \in 1..Len(wrem[c][d]) :
          /\ written' = [written EXCEPT ![c][d] = @ \o Take(wrem[c][d], k)]
          /\ wrem' = [wrem EXCEPT ![c][d] = Drop(@, k)]
          /\ spc' = [spc EXCEPT ![c][d] =
                        IF WriteAllDone(Drop(wrem[c][d], k))
                        THEN AfterWrite(tracker_ok[c][d]) ELSE "write"]
    /\ UNCHANGED <<acceptVars, connVars, buf, len, tracker_ok, readSeq, answers,
                   poisonSent>>
    /\ UNCHANGED <<queueVars, observerVars, trackerVars>>

\* A write of write_all fails: the ? returns the I/O error.
ShuttleWriteErr(c, d) ==
    /\ spc[c][d] = "write"
    /\ Complete(c, d, "BrokenPipe")
    /\ UNCHANGED <<acceptVars, tracker_ok, readSeq, written, answers, poisonSent>>
    /\ UNCHANGED <<chan, rxOpen, observerVars, trackerVars>>

\* The send's error returned with ?: proxy_bytes is over.
ReturnSendError == "done"

\* The notification left out: back to the read.
SkipNotify == "read"

\* The step after a failed tracker_channel.send: notify the other side.
AfterSendFailure == "notify"

\* A queue that takes an item whatever it holds.
Unbounded(q) == TRUE

\* mpsc::channel(32): a send completes while the queue holds fewer items
\* than its capacity, whichever sender it comes from.
HasRoom(q) == Len(q) < cap

\* tracker_channel.send(Ok(bytes)).await: fails when the receiver is gone,
\* completes when the queue has room, and waits otherwise.
ShuttleSend(c, d) ==
    /\ spc[c][d] = "send"
    /\ IF ~rxOpen[c][d]
       THEN /\ tracker_ok' = [tracker_ok EXCEPT ![c][d] = FALSE]
            /\ spc' = [spc EXCEPT ![c][d] = AfterSendFailure]
            /\ UNCHANGED chan
       ELSE /\ HasRoom(chan[c][d])
            /\ chan' = [chan EXCEPT ![c][d] = Append(@, OkBytes(CopySlice(buf[c][d], len[c][d])))]
            /\ spc' = [spc EXCEPT ![c][d] = "read"]
            /\ UNCHANGED tracker_ok
    /\ UNCHANGED <<acceptVars, connVars, buf, len, wrem, readSeq, written, answers,
                   poisonSent>>
    /\ UNCHANGED <<rxOpen, txOpen, observerVars, trackerVars>>

\* let _ = notify_channel.send(Err(notification)).await: the token goes to
\* the other direction's queue; a failure is ignored.
ShuttleNotify(c, d) ==
    /\ spc[c][d] = "notify"
    /\ IF ~rxOpen[c][Other(d)]
       THEN UNCHANGED <<chan, poisonSent>>
       ELSE /\ HasRoom(chan[c][Other(d)])
            /\ chan' = [chan EXCEPT ![c][Other(d)] = Append(@, ErrEof)]
            /\ poisonSent' = [poisonSent EXCEPT ![c][d] = TRUE]
    /\ spc' = [spc EXCEPT ![c][d] = "read"]
    /\ UNCHANGED <<acceptVars, connVars, buf, len, wrem, tracker_ok, readSeq,
                   written, answers>>
    /\ UNCHANGED <<rxOpen, txOpen, observerVars, trackerVars>>


\* ============================================================ tracker
\* track_client_request: a request with a nonzero request_id becomes pending.
OnClientMessage(pend, id) == IF id # 0 THEN pend \cup {id} ELSE pend

\* track_server_response: a reply to a pending request gives a latency sample.
HasSample(pend, id) == id \in pend

OnServerMessage(pend, id) == pend \ {id}

\* =========================================================== observer
\* The error arm logging and looping on instead of returning.
LogAndContinue(kind) == IF kind = "UnexpectedEof" THEN "done_ok" ELSE "run"

\* track_messages' match on the error of from_reader: UnexpectedEof ends
\* the task with Ok, any other error ends it with Err.
OnReaderError(kind) == IF kind = "UnexpectedEof" THEN "done_ok" ELSE "done_err"

\* A receiver that outlives its task.
RxLeaked(pc) == TRUE

\* The receiver is owned by track_messages (rx, moved into stream_reader):
\* it lives while the task runs and is dropped when the task returns.
RxAlive(pc) == pc = "run"

\* The observer task ends: its receiver is dropped, what is queued is lost.
ObserverEnds(c, d, kind) ==
    /\ opc' = [opc EXCEPT ![c][d] = OnReaderError(kind)]
    /\ rxOpen' = [rxOpen EXCEPT ![c][d] = RxAlive(OnReaderError(kind))]
    /\ chan' = [chan EXCEPT ![c][d] =
                   IF RxAlive(OnReaderError(kind)) THEN Tail(@) ELSE <<>>]

\* Each chunk read on its own, the bytes left of the chunk before it lost.
ChunkAlone(b, bytes) == bytes

\* stream_reader(rx): the chunks of the queue read as one byte stream, a
\* chunk following the unread bytes of the chunk before it.
StreamAppend(b, bytes) == b \o bytes

\* from_reader needs bytes and the queue has an item: a data chunk is added
\* to the bytes at hand; an Err item is returned by the read as its error.
ObsRecv(c, d) ==
    /\ opc[c][d] = "run"
    /\ FrameStatus(fbuf[c][d]) = "need"
    /\ chan[c][d] # <<>>
    /\ IF Head(chan[c][d]).kind = "Ok"
       THEN /\ fbuf' = [fbuf EXCEPT ![c][d] = StreamAppend(@, Head(chan[c][d]).bytes)]
            /\ delivered' = [delivered EXCEPT ![c][d] = @ \o Head(chan[c][d]).bytes]
            /\ chan' = [chan EXCEPT ![c][d] = Tail(@)]
            /\ UNCHANGED <<opc, rxOpen, tokenSeen>>
       ELSE /\ ObserverEnds(c, d, "UnexpectedEof")
            /\ tokenSeen' = [tokenSeen EXCEPT ![c][d] = TRUE]
            /\ UNCHANGED <<fbuf, delivered>>
    /\ UNCHANGED <<acceptVars, connVars, shuttleVars, txOpen, ntracked, protoErr,
                   trackerVars>>

\* from_reader needs bytes, the queue is empty and every sender is dropped:
\* the stream ends and the read comes back short, an UnexpectedEof.
ObsEof(c, d) ==
    /\ opc[c][d] = "run"
    /\ FrameStatus(fbuf[c][d]) = "need"
    /\ chan[c][d] = <<>>
    /\ ~txOpen[c]
    /\ hstate[c] = "closed"
    /\ opc' = [opc EXCEPT ![c][d] = OnReaderError("UnexpectedEof")]
    /\ rxOpen' = [rxOpen EXCEPT ![c][d] = RxAlive(OnReaderError("UnexpectedEof"))]
    /\ UNCHANGED <<acceptVars, connVars, shuttleVars, chan, txOpen, fbuf, delivered,
                   ntracked, protoErr, tokenSeen, trackerVars>>

\* from_reader has read a header it refuses: a protocol error.
ObsProtoErr(c, d) ==
    /\ opc[c][d] = "run"
    /\ FrameStatus(fbuf[c][d]) = "bad"
    /\ opc' = [opc EXCEPT ![c][d] = OnReaderError("InvalidData")]
    /\ rxOpen' = [rxOpen EXCEPT ![c][d] = RxAlive(OnReaderError("InvalidData"))]
    /\ chan' = [chan EXCEPT ![c][d] =
                   IF RxAlive(OnReaderError("InvalidData")) THEN @ ELSE <<>>]
    /\ fbuf' = [fbuf EXCEPT ![c][d] = Drop(@, HDR)]
    /\ protoErr' = [protoErr EXCEPT ![c][d] = TRUE]
    /\ UNCHANGED <<acceptVars, connVars, shuttleVars, txOpen, delivered, ntracked,
                   tokenSeen, trackerVars>>

\* A lock that is granted whoever holds it.
LockGranted(m) == TRUE

\* Mutex::lock returns once no other guard of the mutex is alive.
LockFree(m) == m = "free"

\* from_reader returned a message: tracker_fn takes the tracker's mutex.
ObsLock(c, d) ==
    /\ opc[c][d] = "run"
    /\ FrameStatus(fbuf[c][d]) = "ready"
    /\ LockFree(mutex[c])
    /\ mutex' = [mutex EXCEPT ![c] = d]
    /\ opc' = [opc EXCEPT ![c][d] = "locked"]
    /\ UNCHANGED <<acceptVars, connVars, shuttleVars, queueVars, fbuf, delivered,
                   ntracked, protoErr, tokenSeen, pending, samples, orphans>>

\* tracker_fn does the bookkeeping of the message and releases the mutex
\* as the guard goes out of scope.
ObsTrack(c, d) ==
    /\ opc[c][d] = "locked"
    /\ mutex[c] = d
    /\ IF d = "client"
       THEN /\ pending' = [pending EXCEPT ![c] = OnClientMessage(@, MsgId(fbuf[c][d][1]))]
            /\ UNCHANGED <<samples, orphans>>
       ELSE /\ pending' = [pending EXCEPT ![c] = OnServerMessage(@, MsgId(fbuf[c][d][1]))]
            /\ samples' = [samples EXCEPT ![c] =
                              IF HasSample(pending[c], MsgId(fbuf[c][d][1]))
                              THEN @ \cup {ntracked[c][d] + 1} ELSE @]
            /\ orphans' = [orphans EXCEPT ![c] =
                              IF HasSample(pending[c], MsgId(fbuf[c][d][1]))
                              THEN @ ELSE @ + 1]
    /\ ntracked' = [ntracked EXCEPT ![c][d] = @ + 1]
    /\ fbuf' = [fbuf EXCEPT ![c][d] = Drop(@, TotalLength(@[1]))]
    /\ mutex' = [mutex EXCEPT ![c] = "free"]
    /\ opc' = [opc EXCEPT ![c][d] = "run"]
    /\ UNCHANGED <<acceptVars, connVars, shuttleVars, queueVars, delivered, protoErr,
                   tokenSeen>>

\* ====================================================== client label
\* The decimal digits; a group or a port of the model is one digit.
Digits == <<"0", "1", "2", "3", "4", "5", "6", "7", "8", "9">>

\* The peer socket addresses: an IPv4 or IPv6 address of two groups, and a
\* port.
SocketAddrs ==
    [v6 : BOOLEAN,
     ip : {<<Digits[i + 1], Digits[j + 1]>> : i, j \in 0..MaxGroup},
     port : {Digits[k + 1] : k \in 1..MaxPort}]

\* The value of peer_addr in the specifications that format no label.
NoPeer == [v6 |-> FALSE, ip |-> <<"0", "0">>, port |-> "1"]

\* IpAddr's Display: the groups joined by "." (IPv4) or ":" (IPv6).
IpToString(a) == <<a.ip[1], IF a.v6 THEN ":" ELSE ".", a.ip[2]>>

\* SocketAddr::to_string (AddrToString): "ip:port" for IPv4, "[ip]:port" for IPv6.
AddrToString(a) ==
    IF a.v6 THEN <<"[">> \o IpToString(a) \o <<"]", ":", a.port>>
    ELSE IpToString(a) \o <<":", a.port>>

\* str::find(ch): the position of the first ch of s, 0 when there is none.
Find(s, ch) ==
    IF \E i \in 1..Len(s) : s[i] = ch
    THEN CHOOSE i \in 1..Len(s) : s[i] = ch /\ \A j \in 1..(i - 1) : s[j] # ch
    ELSE 0

\* format_client_address: to_string, then split_off at the first ':'.
FormatClientAddress(a) ==
    IF Find(AddrToString(a), ":") # 0
    THEN Take(AddrToString(a), Find(AddrToString(a), ":") - 1)
    ELSE AddrToString(a)

\* let client_addr = format_client_address(&peer_addr)
FormatPeer ==
    /\ client_addr = <<>>
    /\ client_addr' = FormatClientAddress(peer_addr)
    /\ UNCHANGED <<remote_addr, nsock, accept_errs, apc, peer_addr, limit, cap>>
    /\ UNCHANGED <<connVars, shuttleVars, queueVars, observerVars, trackerVars>>

\* ======================================================== accept loop
\* server_addr: the configured upstream, or else the original destination
\* of the socket; "none" when there is neither.
ServerAddr(remote, orig_dst) == IF remote = "" THEN orig_dst ELSE remote

\* The connection counter's increment for an accepted socket whose target
\* is server_addr.
CountAccepted(server_addr) == IF server_addr = "none" THEN 0 ELSE 1

\* The error counter's increment for an accepted socket with no target.
CountNoTarget(server_addr) == 0

\* An iteration that leaves the loop when accept() failed.
ExitOnAcceptError(outcome) == IF outcome = "accept_err" THEN "exit" ELSE "accept"

\* Where an iteration of the loop ends: after the spawn, after the continue
\* of a socket with no target and after the warning of a failed accept()
\* alike, back at listener.accept().
LoopAfter(outcome) == "accept"

\* listener.accept() returns a socket: resolve its target; with none, log
\* and continue; else count the connection and spawn conn_handler.
AcceptOk ==
    /\ apc = "accept"
    /\ nsock < MaxConns
    /\ nsock' = nsock + 1
    /\ \E orig_dst \in {"none", "10.0.0.9:27017"} :
          LET c == nsock + 1
              server_addr == ServerAddr(remote_addr, orig_dst)
          IN /\ hstate' = [hstate EXCEPT ![c] =
                              IF server_addr = "none" THEN "nodst" ELSE "spawned"]
             /\ connection_count' =
                   [connection_count EXCEPT ![c] = @ + CountAccepted(server_addr)]
             /\ connection_errors' =
                   [connection_errors EXCEPT ![c] = @ + CountNoTarget(server_addr)]
             /\ apc' = LoopAfter(IF server_addr = "none" THEN "nodst" ELSE "spawned")
    /\ UNCHANGED <<remote_addr, accept_errs, peer_addr, client_addr, limit, cap,
                   handlerResult, firstErr,
                   disconnection_count>>
    /\ UNCHANGED <<shuttleVars, queueVars, observerVars, trackerVars>>

\* listener.accept() fails: warn and loop.
AcceptErr ==
    /\ apc = "accept"
    /\ accept_errs < MaxAcceptErrs
    /\ accept_errs' = accept_errs + 1
    /\ apc' = LoopAfter("accept_err")
    /\ UNCHANGED <<remote_addr, nsock, peer_addr, client_addr, limit, cap, connVars,
                   shuttleVars, queueVars,
                   observerVars, trackerVars>>

\* ===================================================== specifications
ConnInit ==
    /\ handlerResult = [c \in Conns |-> "none"]
    /\ firstErr = [c \in Conns |-> "none"]
    /\ disconnection_count = [c \in Conns |-> 0]
    /\ connection_errors = [c \in Conns |-> 0]
    /\ spc = [c \in Conns |-> NoShuttle]
    /\ buf = [c \in Conns |-> [d \in Dirs |-> <<>>]]
    /\ len = [c \in Conns |-> [d \in Dirs |-> 0]]
    /\ wrem = [c \in Conns |-> [d \in Dirs |-> <<>>]]
    /\ tracker_ok = [c \in Conns |-> [d \in Dirs |-> TRUE]]
    /\ readSeq = [c \in Conns |-> [d \in Dirs |-> <<>>]]
    /\ written = [c \in Conns |-> [d \in Dirs |-> <<>>]]
    /\ answers = [c \in Conns |-> [d \in Dirs |-> {}]]
    /\ poisonSent = [c \in Conns |-> [d \in Dirs |-> FALSE]]
    /\ chan = [c \in Conns |-> [d \in Dirs |-> <<>>]]
    /\ rxOpen = [c \in Conns |-> [d \in Dirs |-> FALSE]]
    /\ txOpen = [c \in Conns |-> FALSE]
    /\ opc = [c \in Conns |-> [d \in Dirs |-> "idle"]]
    /\ fbuf = [c \in Conns |-> [d \in Dirs |-> <<>>]]
    /\ delivered = [c \in Conns |-> [d \in Dirs |-> <<>>]]
    /\ ntracked = [c \in Conns |-> [d \in Dirs |-> 0]]
    /\ protoErr = [c \in Conns |-> [d \in Dirs |-> FALSE]]
    /\ tokenSeen = [c \in Conns |-> [d \in Dirs |-> FALSE]]
    /\ mutex = [c \in Conns |-> "free"]
    /\ pending = [c \in Conns |-> {}]
    /\ samples = [c \in Conns |-> {}]
    /\ orphans = [c \in Conns |-> 0]

\* One connection, just spawned by the accept loop.
Init ==
    /\ remote_addr = "db:27017"
    /\ nsock = 1
    /\ accept_errs = 0
    /\ apc = "accept"
    /\ peer_addr = NoPeer
    /\ client_addr = <<>>
    /\ limit = MaxStream
    /\ cap = QUEUE_CAP
    /\ hstate = [c \in Conns |-> IF c = 1 THEN "spawned" ELSE "none"]
    /\ connection_count = [c \in Conns |-> IF c = 1 THEN 1 ELSE 0]
    /\ ConnInit

\* The listener is bound and no socket is accepted yet; the peers of the
\* connections to come send nothing before they close or fail.
AcceptInit ==
    /\ remote_addr \in {"", "db:27017"}
    /\ nsock = 0
    /\ accept_errs = 0
    /\ apc = "accept"
    /\ peer_addr = NoPeer
    /\ client_addr = <<>>
    /\ limit = 0
    /\ cap = QUEUE_CAP
    /\ hstate = [c \in Conns |-> "none"]
    /\ connection_count = [c \in Conns |-> 0]
    /\ ConnInit

ShuttleStep(c, d) ==
    \/ ShuttleRead(c, d)
    \/ ShuttleReadEof(c, d)
    \/ ShuttleReadErr(c, d)
    \/ ShuttleWrite(c, d)
    \/ ShuttleWriteErr(c, d)
    \/ ShuttleSend(c, d)
    \/ ShuttleNotify(c, d)

ObserverStep(c, d) ==
    \/ ObsRecv(c, d)
    \/ ObsEof(c, d)
    \/ ObsProtoErr(c, d)
    \/ ObsLock(c, d)
    \/ ObsTrack(c, d)

ConnNext ==
    \E c \in Conns :
        \/ Dial(c)
        \/ \E d \in Dirs : ShuttleStep(c, d)
        \/ \E d \in Dirs : ObserverStep(c, d)

Next == ConnNext

\* The steps of connections that carry no data.
QuietConnNext ==
    \E c \in Conns :
        \/ Dial(c)
        \/ \E d \in Dirs : ShuttleReadEof(c, d)
        \/ \E d \in Dirs : ShuttleReadErr(c, d)
        \/ \E d \in Dirs : ObsEof(c, d)

AcceptNext == AcceptOk \/ AcceptErr \/ QuietConnNext

\* The listener is bound and no socket is accepted yet; the peers of each
\* connection to come send up to ServeStream blocks.
ServeInit ==
    /\ remote_addr \in {"", "db:27017"}
    /\ nsock = 0
    /\ accept_errs = 0
    /\ apc = "accept"
    /\ peer_addr = NoPeer
    /\ client_addr = <<>>
    /\ limit = ServeStream
    /\ cap = QUEUE_CAP
    /\ hstate = [c \in Conns |-> "none"]
    /\ connection_count = [c \in Conns |-> 0]
    /\ ConnInit

\* The steps of connections that carry so little that no send to an
\* observer can fail: the notification is never reached.
ServeConnNext ==
    \E c \in Conns :
        \/ Dial(c)
        \/ \E d \in Dirs : \/ ShuttleRead(c, d)
                           \/ ShuttleReadEof(c, d)
                           \/ ShuttleReadErr(c, d)
                           \/ ShuttleWrite(c, d)
                           \/ ShuttleWriteErr(c, d)
                           \/ ShuttleSend(c, d)
        \/ \E d \in Dirs : ObserverStep(c, d)

ServeNext == AcceptOk \/ AcceptErr \/ ServeConnNext

Spec == Init /\ [][Next]_vars

AcceptSpec == AcceptInit /\ [][AcceptNext]_vars

ServeSpec == ServeInit /\ [][ServeNext]_vars

\* A socket was accepted from any of the peers; its label is to be made.
LabelInit ==
    /\ remote_addr = "db:27017"
    /\ nsock = 0
    /\ accept_errs = 0
    /\ apc = "accept"
    /\ peer_addr \in SocketAddrs
    /\ client_addr = <<>>
    /\ limit = 0
    /\ cap = QUEUE_CAP
    /\ hstate = [c \in Conns |-> "none"]
    /\ connection_count = [c \in Conns |-> 0]
    /\ ConnInit

LabelNext == FormatPeer

LabelSpec == LabelInit /\ [][LabelNext]_vars

\* The runtime polls every spawned task that can make progress: an observer
\* with an item to take, a message to frame or a closed queue runs, and a
\* send that the queue can take (or that it refuses) completes.
Fairness ==
    \A c \in Conns : \A d \in Dirs :
        /\ WF_vars(ObserverStep(c, d))
        /\ WF_vars(ShuttleSend(c, d))
        /\ WF_vars(ShuttleNotify(c, d))

FairSpec == Init /\ [][Next]_vars /\ Fairness

\* One connection, just spawned, whose observer queues hold TightCap items.
TightInit ==
    /\ remote_addr = "db:27017"
    /\ nsock = 1
    /\ accept_errs = 0
    /\ apc = "accept"
    /\ peer_addr = NoPeer
    /\ client_addr = <<>>
    /\ limit = MaxStream
    /\ cap = TightCap
    /\ hstate = [c \in Conns |-> IF c = 1 THEN "spawned" ELSE "none"]
    /\ connection_count = [c \in Conns |-> IF c = 1 THEN 1 ELSE 0]
    /\ ConnInit

TightSpec == TightInit /\ [][Next]_vars /\ Fairness


\* ============================================================= claims
Running(c, d) == spc[c][d] \in {"read", "write", "send", "notify"}

SocketErrors == {"UnexpectedEof", "ConnectionReset", "BrokenPipe"}

\* C1: byte-exact forwarding.  In each direction what has been written to
\* the far socket is a prefix of what has been read from the source socket;
\* what is missing is the unwritten rest of the chunk of the current
\* iteration, at most one read chunk; and nothing is missing whenever the
\* shuttle is past write_all, in particular when it issues its next read.
ByteExactForwarding ==
    \A c \in Conns : \A d \in Dirs :
        /\ IsPrefix(written[c][d], readSeq[c][d])
        /\ Len(readSeq[c][d]) - Len(written[c][d]) <= CHUNK
        /\ Running(c, d) =>
              /\ readSeq[c][d] = written[c][d] \o wrem[c][d]
              /\ Len(wrem[c][d]) <= len[c][d]
              /\ len[c][d] <= CHUNK
        /\ spc[c][d] \in {"read", "send", "notify"} => written[c][d] = readSeq[c][d]

\* A direction has forwarded the whole stream, in more than one chunk, and
\* is about to read again.
ByteExactForwardingWitness ==
    \E c \in Conns : \E d \in Dirs :
        /\ spc[c][d] = "read"
        /\ Len(written[c][d]) = MaxStream
        /\ written[c][d] = readSeq[c][d]
        /\ written[c][d][1] # written[c][d][2]
        /\ len[c][d] < MaxStream

\* C4: write-before-observe.  The data chunks a direction's observer has
\* received, followed by those still in its queue, are a prefix of the
\* bytes already written to the far socket in that direction.
WriteBeforeObserve ==
    \A c \in Conns : \A d \in Dirs :
        IsPrefix(delivered[c][d] \o DataOf(chan[c][d]), written[c][d])

\* An observer has received one chunk and another waits in its queue while
\* the shuttle is in the write_all of a third.
WriteBeforeObserveWitness ==
    \E c \in Conns : \E d \in Dirs :
        /\ delivered[c][d] # <<>>
        /\ DataOf(chan[c][d]) # <<>>
        /\ spc[c][d] = "write"
        /\ Len(delivered[c][d] \o DataOf(chan[c][d])) < Len(readSeq[c][d])

\* C6: connection outcome accounting.  A connection whose dial succeeded
\* has no counter incremented while it is proxied, and once it has ended on
\* a shuttle's error exactly one counter was incremented, once:
\* disconnections when the first shuttle to complete ended on a 0-byte
\* read, connection errors when it ended on another read or write error.
OutcomeAccounting ==
    \A c \in Conns :
        /\ hstate[c] = "proxying" =>
              disconnection_count[c] = 0 /\ connection_errors[c] = 0
        /\ (hstate[c] = "closed" /\ firstErr[c] \in SocketErrors) =>
              /\ disconnection_count[c] + connection_errors[c] = 1
              /\ disconnection_count[c] = 1 <=> firstErr[c] = "UnexpectedEof"
              /\ \E d \in Dirs : spc[c][d] = "done"

\* A connection ended by a 0-byte read after it had forwarded data.
OutcomeAccountingWitness ==
    \E c \in Conns : \E d \in Dirs :
        /\ hstate[c] = "closed"
        /\ firstErr[c] = "UnexpectedEof"
        /\ spc[c][d] = "done"
        /\ written[c][d] # <<>>
        /\ disconnection_count[c] = 1


\* C7: cancellation on first completion.  A shuttle that has completed has
\* ended the connection and cancelled the other shuttle; and once the
\* handler has returned, neither direction reads from a socket, writes to a
\* socket or puts anything on an observer queue, and the outcome stands.
CancelledTogether ==
    \A c \in Conns : \A d \in Dirs :
        spc[c][d] = "done" =>
            /\ hstate[c] = "closed"
            /\ spc[c][Other(d)] = "cancelled"
            /\ ~txOpen[c]

QuietAfterReturn ==
    \A c \in Conns :
        hstate[c] = "closed" =>
            /\ hstate'[c] = "closed"
            /\ readSeq'[c] = readSeq[c]
            /\ written'[c] = written[c]
            /\ spc'[c] = spc[c]
            /\ \A d \in Dirs : Len(chan'[c][d]) <= Len(chan[c][d])
            /\ handlerResult'[c] = handlerResult[c]
            /\ disconnection_count'[c] = disconnection_count[c]
            /\ connection_errors'[c] = connection_errors[c]

CancellationOnFirstCompletion == [](CancelledTogether) /\ [][QuietAfterReturn]_vars

\* One shuttle completed while the other was inside write_all with part of
\* its chunk unwritten, and an observer still has an item to take.
CancellationWitness ==
    \E c \in Conns : \E d \in Dirs :
        /\ spc[c][d] = "done"
        /\ spc[c][Other(d)] = "cancelled"
        /\ Len(written[c][Other(d)]) < Len(readSeq[c][Other(d)])
        /\ chan[c][Other(d)] # <<>>

\* C2: observer isolation.  A step of a shuttle out of the send to its
\* observer queue or out of the send of the poison token never ends
\* proxy_bytes nor the connection (the shuttle goes on to notify or to read,
\* unless the other shuttle ends the connection), whether the send failed
\* or not; a connection ends only on a socket error of a shuttle; and a
\* shuttle whose observer has stopped still has written all it has read
\* whenever it is back at its read.
SendNeverReturns ==
    \A c \in Conns : \A d \in Dirs :
        (spc[c][d] \in {"send", "notify"} /\ spc'[c][d] # spc[c][d]) =>
            \/ spc'[c][d] \in {"read", "notify"} /\ hstate'[c] = "proxying"
            \/ spc'[c][d] = "cancelled" /\ spc'[c][Other(d)] = "done"

ForwardsWithoutObserver ==
    \A c \in Conns : \A d \in Dirs :
        /\ (~rxOpen[c][d] /\ spc[c][d] = "read") => written[c][d] = readSeq[c][d]
        /\ (hstate[c] = "closed" /\ handlerResult[c] = "Ok") =>
              firstErr[c] = "UnexpectedEof"
        /\ spc[c][d] = "done" => firstErr[c] \in SocketErrors

ObserverIsolation == [](ForwardsWithoutObserver) /\ [][SendNeverReturns]_vars

\* A shuttle whose send failed, the peer's observer gone as well, has
\* forwarded every block of the stream and is at its read again.
ObserverIsolationWitness ==
    \E c \in Conns : \E d \in Dirs :
        /\ hstate[c] = "proxying"
        /\ ~tracker_ok[c][d]
        /\ ~rxOpen[c][Other(d)]
        /\ ~poisonSent[c][d]
        /\ spc[c][d] = "read"
        /\ Len(written[c][d]) > Len(delivered[c][d])

\* C9: protocol-error guard.  Once the framer has reported a protocol error
\* on a direction, that direction's observer task has ended with the error
\* and its receiver is dropped; the tracker callback is not invoked for
\* that direction again; and the direction's shuttle is not ended by it:
\* it completes only on a socket error, and has written all it has read
\* whenever it is at its read.
EndedOnProtocolError ==
    \A c \in Conns : \A d \in Dirs :
        protoErr[c][d] =>
            /\ opc[c][d] = "done_err"
            /\ ~rxOpen[c][d]
            /\ chan[c][d] = <<>>
            /\ spc[c][d] = "read" => written[c][d] = readSeq[c][d]
            /\ spc[c][d] = "done" => firstErr[c] \in SocketErrors

NoCallbackAfterProtocolError ==
    \A c \in Conns : \A d \in Dirs :
        protoErr[c][d] =>
            /\ ntracked'[c][d] = ntracked[c][d]
            /\ opc'[c][d] = opc[c][d]
            /\ (spc[c][d] # spc'[c][d] /\ spc'[c][d] = "done") =>
                   spc[c][d] \in {"read", "write"}

ProtocolErrorGuard == [](EndedOnProtocolError) /\ [][NoCallbackAfterProtocolError]_vars

\* An observer ended on a protocol error after it had tracked a message,
\* and its shuttle has since forwarded a further chunk.
ProtocolErrorGuardWitness ==
    \E c \in Conns : \E d \in Dirs :
        /\ protoErr[c][d]
        /\ ntracked[c][d] > 0
        /\ hstate[c] = "proxying"
        /\ spc[c][d] = "read"
        /\ Len(written[c][d]) > Len(delivered[c][d])


\* C3: the observer never blocks the shuttle.  No shuttle is ever held at
\* the send to its own observer queue by a queue that is full and whose
\* observer is alive and has not consumed from it.
ShuttleNeverWaitsOnFullQueue ==
    \A c \in Conns : \A d \in Dirs :
        ~(/\ spc[c][d] = "send"
          /\ rxOpen[c][d]
          /\ Len(chan[c][d]) >= QUEUE_CAP)

\* C5: correlation under concurrent observers.  While both observers are
\* alive and neither has met a protocol error, every reply the server
\* observer has tracked that is the first with its nonzero response_to and
\* was read from the server after a request of that id had been forwarded
\* to it, has given a latency sample.
ObserversAlive(c) ==
    \A d \in Dirs : opc[c][d] \in {"run", "locked"} /\ ~protoErr[c][d]

CorrelationUnderConcurrentObservers ==
    \A c \in Conns :
        ObserversAlive(c) =>
            \A k \in 1..ntracked[c]["server"] :
                LET fs == Frames(delivered[c]["server"])
                IN (/\ fs[k].id # 0
                    /\ fs[k].first \in answers[c]["server"]
                    /\ \A j \in 1..(k - 1) : fs[j].id # fs[k].id)
                   => k \in samples[c]

\* C8 as stated: whenever a shuttle's send to its own observer has failed
\* and the shuttle is past its notification, its token was enqueued; and
\* the other direction's observer, once ended, has consumed a token and
\* returned Ok.
PoisonAlwaysConsumed ==
    \A c \in Conns : \A d \in Dirs :
        ~tracker_ok[c][d] =>
            /\ spc[c][d] \in {"read", "write", "send"} => poisonSent[c][d]
            /\ opc[c][Other(d)] \in {"done_ok", "done_err"} =>
                  opc[c][Other(d)] = "done_ok" /\ tokenSeen[c][Other(d)]

\* C8, amended: poison propagation.  A shuttle whose send to its own
\* observer fails (the receiver is gone) goes on to the notification; the
\* notification puts an UnexpectedEof token at the back of the other
\* direction's queue when that queue's receiver is alive and is ignored
\* otherwise; an observer that consumes a token returns Ok at once, calls
\* the tracker no more and drops what is queued behind the token; and under
\* fair scheduling the other direction's observer eventually terminates,
\* by the token, by an error of its own or by the end of the connection.
PoisonSteps ==
    \A c \in Conns : \A d \in Dirs :
        /\ (tracker_ok[c][d] /\ ~tracker_ok'[c][d]) =>
              ~rxOpen[c][d] /\ spc'[c][d] = "notify"
        /\ (spc[c][d] = "notify" /\ spc'[c][d] = "read") =>
              chan'[c][Other(d)] =
                 IF rxOpen[c][Other(d)] THEN Append(chan[c][Other(d)], ErrEof)
                 ELSE chan[c][Other(d)]
        /\ (~tokenSeen[c][d] /\ tokenSeen'[c][d]) =>
              /\ opc'[c][d] = "done_ok"
              /\ ~rxOpen'[c][d]
              /\ chan'[c][d] = <<>>
              /\ delivered'[c][d] = delivered[c][d]
        /\ tokenSeen[c][d] =>
              /\ opc'[c][d] = "done_ok"
              /\ ntracked'[c][d] = ntracked[c][d]
              /\ delivered'[c][d] = delivered[c][d]

PoisonStates ==
    \A c \in Conns : \A d \in Dirs :
        /\ tokenSeen[c][d] => poisonSent[c][Other(d)] /\ opc[c][d] = "done_ok"
        /\ poisonSent[c][d] => ~tracker_ok[c][d]
        /\ (~tracker_ok[c][d] /\ spc[c][d] \in {"read", "write", "send"}) =>
              poisonSent[c][d] \/ opc[c][Other(d)] \in {"done_ok", "done_err"}

OtherObserverTerminates ==
    \A c \in Conns : \A d \in Dirs :
        (~tracker_ok[c][d]) ~> (opc[c][Other(d)] \in {"done_ok", "done_err"})

PoisonPropagation ==
    [](PoisonStates) /\ [][PoisonSteps]_vars /\ OtherObserverTerminates

\* An observer has consumed the token of the other direction's shuttle and
\* returned Ok, and a chunk its own shuttle had queued behind the token was
\* dropped with the queue: the shuttle has not seen a send fail, yet bytes
\* it forwarded were never delivered.
PoisonPropagationWitness ==
    \E c \in Conns : \E d \in Dirs :
        /\ tokenSeen[c][d]
        /\ opc[c][d] = "done_ok"
        /\ ~tracker_ok[c][Other(d)]
        /\ hstate[c] = "proxying"
        /\ tracker_ok[c][d]
        /\ spc[c][d] = "read"
        /\ Len(written[c][d]) > Len(delivered[c][d])

\* C10: transparent mode without an original destination.  A socket
\* accepted with no upstream configured and no original destination has
\* been counted in the connection-error counter.
NoTargetCounted ==
    \A c \in Conns :
        hstate[c] = "nodst" => connection_errors[c] = 1


\* C11: every accepted socket increments the connection counter exactly
\* once, the sockets whose target cannot be resolved included.
EveryAcceptedSocketCounted ==
    \A c \in Conns :
        hstate[c] # "none" => connection_count[c] = 1


\* C12: upstream resolve or dial failure.  A connection whose resolve or
\* dial failed is closed and is counted once in the connection-error
\* counter and not in the disconnection counter; no shuttle and no observer
\* was started for it, no byte was read, forwarded or queued; its counters
\* do not change afterwards; and the accept loop is at accept(), able to
\* take the next socket.
DialFailed(c) ==
    hstate[c] = "closed" /\ firstErr[c] \in {"resolve_err", "connect_err"}

DialFailureCounted ==
    \A c \in Conns :
        DialFailed(c) =>
            /\ handlerResult[c] = "Err"
            /\ connection_errors[c] = 1
            /\ disconnection_count[c] = 0
            /\ spc[c] = NoShuttle
            /\ \A d \in Dirs :
                  /\ opc[c][d] = "idle"
                  /\ ~rxOpen[c][d]
                  /\ readSeq[c][d] = <<>>
                  /\ written[c][d] = <<>>
                  /\ chan[c][d] = <<>>
            /\ apc = "accept"
            /\ nsock < MaxConns => ENABLED AcceptOk

DialFailureFinal ==
    \A c \in Conns :
        DialFailed(c) =>
            /\ DialFailed(c)'
            /\ connection_errors'[c] = connection_errors[c]
            /\ disconnection_count'[c] = disconnection_count[c]
            /\ connection_count'[c] = connection_count[c]

DialFailure == [](DialFailureCounted) /\ [][DialFailureFinal]_vars

\* The dial of the first connection failed, and the loop went on to accept
\* a second socket, whose connection has forwarded a block.
DialFailureWitness ==
    \E c \in Conns : \E c2 \in Conns : \E d \in Dirs :
        /\ c < c2
        /\ hstate[c] = "closed"
        /\ firstErr[c] = "connect_err"
        /\ hstate[c2] = "proxying"
        /\ written[c2][d] # <<>>

\* C13: the accept loop never terminates, and connections are isolated.
\* The loop is always at accept(), whatever came before; a step changes the
\* state of at most one connection; and a shuttle of a live connection that
\* is writing a chunk can write, and one that is reading can read what its
\* peer sends, whatever the state of the other connections.
ConnState(c) ==
    <<hstate[c], handlerResult[c], firstErr[c], connection_count[c],
      disconnection_count[c], connection_errors[c], spc[c], buf[c], len[c],
      wrem[c], tracker_ok[c], readSeq[c], written[c], answers[c],
      poisonSent[c], chan[c], rxOpen[c], txOpen[c], opc[c], fbuf[c],
      delivered[c], ntracked[c], protoErr[c], tokenSeen[c], mutex[c],
      pending[c], samples[c], orphans[c]>>

OneConnectionPerStep ==
    \A c \in Conns : \A c2 \in Conns :
        (c # c2 /\ ConnState(c)' # ConnState(c)) => ConnState(c2)' = ConnState(c2)

LoopAccepting ==
    /\ apc = "accept"
    /\ nsock < MaxConns => ENABLED AcceptOk
    /\ accept_errs < MaxAcceptErrs => ENABLED AcceptErr

ForwardingNotStopped ==
    \A c \in Conns : \A d \in Dirs :
        /\ spc[c][d] = "write" => ENABLED ShuttleWrite(c, d)
        /\ (/\ spc[c][d] = "read"
            /\ Len(readSeq[c]["client"]) + Len(readSeq[c]["server"]) < limit)
              => ENABLED ShuttleRead(c, d)

AcceptLoopNeverTerminates ==
    [](LoopAccepting /\ ForwardingNotStopped) /\ [][OneConnectionPerStep]_vars

\* After a failed accept() and a connection that ended in an error, another
\* connection has forwarded a block and is back at its read.
AcceptLoopWitness ==
    \E c \in Conns : \E c2 \in Conns : \E d \in Dirs :
        /\ c # c2
        /\ accept_errs = MaxAcceptErrs
        /\ hstate[c] = "closed"
        /\ handlerResult[c] = "Err"
        /\ hstate[c2] = "proxying"
        /\ written[c2][d] # <<>>
        /\ spc[c2][d] = "read"
        /\ apc = "accept"


\* C14: message framing across chunk boundaries.  The messages handed to
\* the tracker callback of a direction are, in order, the complete messages
\* at the head of the bytes delivered to its observer, however the bytes
\* were cut into chunks: the callback has been called for a prefix of them,
\* each call takes the next one whole, the bytes the framer holds are the
\* delivered bytes not yet handed over, and an observer that has ended has
\* handed over every complete message and ended on the remainder: a short
\* read (EOF) or a refused header (protocol error), never a partial message.
Consumed(c, d) ==
    IF ntracked[c][d] = 0 THEN 0
    ELSE Frames(delivered[c][d])[ntracked[c][d]].last

FramedPrefix ==
    \A c \in Conns : \A d \in Dirs :
        /\ ntracked[c][d] <= Len(Frames(delivered[c][d]))
        /\ ~protoErr[c][d] => fbuf[c][d] = Drop(delivered[c][d], Consumed(c, d))
        /\ opc[c][d] = "locked" => ntracked[c][d] < Len(Frames(delivered[c][d]))
        /\ opc[c][d] \in {"done_ok", "done_err"} =>
              /\ ntracked[c][d] = Len(Frames(delivered[c][d]))
              /\ opc[c][d] = "done_ok" =>
                    FrameStatus(Drop(delivered[c][d], Consumed(c, d))) = "need"
              /\ opc[c][d] = "done_err" =>
                    FrameStatus(Drop(delivered[c][d], Consumed(c, d))) = "bad"

HandsOverNextMessage ==
    \A c \in Conns : \A d \in Dirs :
        ntracked'[c][d] # ntracked[c][d] =>
            LET f == Frames(delivered[c][d])[ntracked[c][d] + 1]
            IN /\ ntracked'[c][d] = ntracked[c][d] + 1
               /\ FrameStatus(fbuf[c][d]) = "ready"
               /\ Take(fbuf[c][d], TotalLength(fbuf[c][d][1])) =
                     SubSeq(delivered[c][d], f.first, f.last)
               /\ fbuf'[c][d] = Drop(delivered[c][d], f.last)

MessageFraming == [](FramedPrefix) /\ [][HandsOverNextMessage]_vars

\* One message was handed over; of the next, the header block has been
\* delivered and the payload block is in a later chunk, still in the queue.
MessageFramingWitness ==
    \E c \in Conns : \E d \in Dirs :
        /\ ntracked[c][d] = 1
        /\ opc[c][d] = "run"
        /\ Len(fbuf[c][d]) = HDR
        /\ TotalLength(fbuf[c][d][1]) = MAX_MESSAGE_SIZE
        /\ chan[c][d] # <<>>
        /\ Head(chan[c][d]).kind = "Ok"


\* C15: observer termination at connection end.  Once the handler has
\* returned no sender of the connection's queues is left; an observer ends
\* on the end of its stream only with its queue empty; and under fair
\* scheduling both observers of a connection that has ended eventually
\* terminate.
SendersDropped ==
    \A c \in Conns : hstate[c] = "closed" => ~txOpen[c]

EndsOnDrainedQueue ==
    \A c \in Conns : \A d \in Dirs :
        (/\ opc[c][d] = "run"
         /\ opc'[c][d] = "done_ok"
         /\ ~tokenSeen'[c][d]) =>
            /\ chan[c][d] = <<>>
            /\ ~txOpen[c]
            /\ delivered'[c][d] = delivered[c][d]

ObserversEventuallyEnd ==
    \A c \in Conns :
        (hstate[c] = "closed") ~>
            (\A d \in Dirs : opc[c][d] \in {"idle", "done_ok", "done_err"})

ObserverTermination ==
    [](SendersDropped) /\ [][EndsOnDrainedQueue]_vars /\ ObserversEventuallyEnd

\* The connection has ended and an observer that met no token and no
\* protocol error has taken every forwarded byte of its direction, two
\* chunks or more, and has terminated.
ObserverTerminationWitness ==
    \E c \in Conns : \E d \in Dirs :
        /\ hstate[c] = "closed"
        /\ \A e \in Dirs : opc[c][e] \in {"done_ok", "done_err"}
        /\ opc[c][d] = "done_ok"
        /\ ~tokenSeen[c][d]
        /\ ntracked[c][d] >= 1
        /\ Len(delivered[c][d]) >= 2
        /\ delivered[c][d] = written[c][d]


Tokens(q) == Cardinality({i \in 1..Len(q) : q[i].kind = "Err"})

FlagDownNeverOffers ==
    \A c \in Conns : \A d \in Dirs :
        /\ ~tracker_ok[c][d] => spc[c][d] # "send"
        /\ poisonSent[c][d] => ~tracker_ok[c][d]
        /\ spc[c][d] = "notify" => ~tracker_ok[c][d] /\ ~poisonSent[c][d]

StickyStep ==
    \A c \in Conns : \A d \in Dirs :
        /\ ~tracker_ok[c][d] => ~tracker_ok'[c][d]
        /\ (spc[c][d] # "notify" /\ spc'[c][d] = "notify") =>
              tracker_ok[c][d] /\ ~tracker_ok'[c][d]
        /\ (~tracker_ok[c][d] /\ spc[c][d] # "notify") =>
              /\ Len(DataOf(chan'[c][d])) <= Len(DataOf(chan[c][d]))
              /\ Tokens(chan'[c][Other(d)]) <= Tokens(chan[c][Other(d)])
        /\ (tracker_ok[c][d] /\ spc[c][d] = "write" /\ spc'[c][d] \notin {"write", "cancelled", "done"})
              => spc'[c][d] = "send"
        /\ (poisonSent[c][d]) => poisonSent'[c][d]

StickyPoison == [](FlagDownNeverOffers) /\ [][StickyStep]_vars

\* A shuttle whose send failed has sent its token and has since forwarded
\* a further chunk without offering it to its observer.
StickyPoisonWitness ==
    \E c \in Conns : \E d \in Dirs :
        /\ ~tracker_ok[c][d]
        /\ poisonSent[c][d]
        /\ spc[c][d] = "read"
        /\ hstate[c] = "proxying"
        /\ Len(written[c][d]) = MaxStream

\* C18: bounded observer queue.  Every observer queue holds at most
\* QUEUE_CAP items, data chunks and poison tokens together, and the framer
\* holds less than one message and one chunk.
BoundedQueue ==
    \A c \in Conns : \A d \in Dirs :
        /\ Len(chan[c][d]) <= QUEUE_CAP
        /\ \A i \in 1..Len(chan[c][d]) : Len(chan[c][d][i].bytes) <= CHUNK
        /\ Len(fbuf[c][d]) < MAX_MESSAGE_SIZE + CHUNK

\* A queue is full, the last of its items the poison token of the peer
\* shuttle, behind a data chunk of its own shuttle.
BoundedQueueWitness ==
    \E c \in Conns : \E d \in Dirs :
        /\ Len(chan[c][d]) = QUEUE_CAP
        /\ chan[c][d][1].kind = "Ok"
        /\ chan[c][d][QUEUE_CAP].kind = "Err"
        /\ rxOpen[c][d]


\* C19: no deadlock among the four tasks of a connection.  Whenever a
\* shuttle of a live connection is at a send, that send, or a step of one
\* of the connection's observers, can be taken; and under fair scheduling
\* a shuttle at the send to its observer queue eventually leaves it, and a
\* shuttle at the send of the poison token eventually leaves it.
SomeTaskCanStep ==
    \A c \in Conns :
        (\E d \in Dirs : spc[c][d] \in {"send", "notify"}) =>
            ENABLED (\E d \in Dirs : \/ ShuttleSend(c, d)
                                     \/ ShuttleNotify(c, d)
                                     \/ ObserverStep(c, d))

SendEventuallyLeaves ==
    \A c \in Conns : \A d \in Dirs :
        /\ (spc[c][d] = "send") ~> (spc[c][d] # "send")
        /\ (spc[c][d] = "notify") ~> (spc[c][d] # "notify")

NoDeadlock == [](SomeTaskCanStep) /\ SendEventuallyLeaves

\* A shuttle whose observer is gone waits with its poison token on the
\* other direction's queue, which is full and whose observer is alive.
NoDeadlockWitness ==
    \E c \in Conns : \E d \in Dirs :
        /\ spc[c][d] = "notify"
        /\ rxOpen[c][Other(d)]
        /\ ~HasRoom(chan[c][Other(d)])
        /\ ~rxOpen[c][d]

\* C20: tracker mutual exclusion.  At most one observer of a connection is
\* inside the tracker's bookkeeping, and it is the holder of the mutex; the
\* mutex is free whenever no observer is inside; an observer holds it from
\* the call of the callback to its return, for one message, and takes
\* nothing from its queue in between.
OneInsideTracker ==
    \A c \in Conns :
        /\ ~(opc[c]["client"] = "locked" /\ opc[c]["server"] = "locked")
        /\ \A d \in Dirs : opc[c][d] = "locked" <=> mutex[c] = d
        /\ mutex[c] \in Dirs \cup {"free"}

HeldForOneMessage ==
    \A c \in Conns : \A d \in Dirs :
        /\ opc[c][d] = "locked" =>
              /\ chan'[c][d] = chan[c][d] \/ Len(chan'[c][d]) > Len(chan[c][d])
              /\ delivered'[c][d] = delivered[c][d]
              /\ opc'[c][d] # "locked" =>
                    /\ opc'[c][d] = "run"
                    /\ mutex'[c] = "free"
                    /\ ntracked'[c][d] = ntracked[c][d] + 1
        /\ ntracked'[c][d] # ntracked[c][d] => mutex[c] = d

TrackerMutualExclusion == [](OneInsideTracker) /\ [][HeldForOneMessage]_vars

\* One observer is inside the tracker while the other has a complete
\* message at hand and waits for the mutex.
TrackerMutualExclusionWitness ==
    \E c \in Conns : \E d \in Dirs :
        /\ opc[c][d] = "locked"
        /\ opc[c][Other(d)] = "run"
        /\ FrameStatus(fbuf[c][Other(d)]) = "ready"

====
